---- MODULE Spec2Model ----
(***************************************************************************)
(* resume: tmux sessions on a remote host, mirrored by Terminal windows.   *)
(* A model of src/src/resume/main.py.  Strings are sequences of one-       *)
(* character strings, so that parsing and formatting are computed.         *)
(***************************************************************************)
EXTENDS Integers, Sequences, FiniteSets, TLC

VARIABLES
    arg,        \* argument of a helper called on its own (validation, listing parse)
    ret,        \* [done, val]: whether that call has returned, and what
    peer,       \* a second invocation, ./resume NAME for the same name: [pc, ...]
    config,     \* ~/.config/resume/config.json as a dict
    tmux,       \* the remote session table: session name -> [clients, auth]
    relay,      \* the remote directory /tmp/resume: [dir, files]
    windows,    \* the local Terminal windows, in opening order: [title, state]
    pc,         \* position of the running invocation of main
    argv,       \* its command line: [name, setup, list, remove, detach, clear]
    host,       \* local of main: what require_host returned
    todo,       \* the sessions a loop of main has still to visit
    existed,    \* ssh_create_session's local
    attached,   \* ssh_create_session's local
    log,        \* the invocation's calls of ssh_run and of osascript, in order
    out,        \* the messages it printed
    exitCode,   \* its exit code, -1 while it runs
    faults      \* the transport and automation failures it has met

world == <<config, tmux, relay, windows>>
locals == <<pc, argv, host, todo, existed, attached, log, out, exitCode, faults>>
vars == <<arg, ret, peer, world, locals>>

(***************************************************************************)
(* Characters and Python's str operations                                  *)
(***************************************************************************)

\* The ASCII characters the model uses, in ascending code point order.
CharOrder ==
    << "\t", "\n", "\f", "\r", " ", "$", "&", "-",
       "0", "1", "2", "3", "4", "5", "6", "7", "8", "9", ":", ";",
       "A", "B", "C", "D", "E", "F", "G", "H", "I", "J", "K", "L", "M",
       "N", "O", "P", "Q", "R", "S", "T", "U", "V", "W", "X", "Y", "Z", "_",
       "a", "b", "c", "d", "e", "f", "g", "h", "i", "j", "k", "l", "m",
       "n", "o", "p", "q", "r", "s", "t", "u", "v", "w", "x", "y", "z" >>

Ord(c) == CHOOSE i \in DOMAIN CharOrder : CharOrder[i] = c

Lower == {CharOrder[i] : i \in Ord("a") .. Ord("z")}
Upper == {CharOrder[i] : i \in Ord("A") .. Ord("Z")}
Digit == {CharOrder[i] : i \in Ord("0") .. Ord("9")}

\* str.isspace() for the characters above.
Whitespace == {"\t", "\n", "\f", "\r", " "}

\* The boundaries str.splitlines() splits at.
LineBreak == {"\n", "\f", "\r"}

PREFIX == <<"r", "e", "s", "u", "m", "e", "-">>

RECURSIVE LStrip(_)
LStrip(s) ==
    IF s # <<>> /\ Head(s) \in Whitespace THEN LStrip(Tail(s)) ELSE s

RECURSIVE RStrip(_)
RStrip(s) ==
    IF s # <<>> /\ s[Len(s)] \in Whitespace
    THEN RStrip(SubSeq(s, 1, Len(s) - 1))
    ELSE s

\* str.strip()
Strip(s) == RStrip(LStrip(s))

\* str.splitlines(): no empty last line, "\r\n" is one boundary.
RECURSIVE SplitFrom(_, _, _)
SplitFrom(s, i, cur) ==
    IF i > Len(s)
    THEN IF cur = <<>> THEN <<>> ELSE <<cur>>
    ELSE IF s[i] \in LineBreak
         THEN LET step == IF s[i] = "\r" /\ i < Len(s) /\ s[i + 1] = "\n"
                          THEN 2 ELSE 1
              IN  <<cur>> \o SplitFrom(s, i + step, <<>>)
         ELSE SplitFrom(s, i + 1, Append(cur, s[i]))

SplitLines(s) == SplitFrom(s, 1, <<>>)

\* str.startswith()
StartsWith(s, p) == Len(s) >= Len(p) /\ SubSeq(s, 1, Len(p)) = p

\* Position of the last ch in s, 0 when there is none.
LastIndex(s, ch) ==
    IF \E i \in DOMAIN s : s[i] = ch
    THEN CHOOSE i \in DOMAIN s :
             s[i] = ch /\ \A j \in DOMAIN s : s[j] = ch => j <= i
    ELSE 0

\* s.rsplit(":", 1) for an s that holds a colon.
RSplitColon(s) ==
    LET k == LastIndex(s, ":")
    IN  <<SubSeq(s, 1, k - 1), SubSeq(s, k + 1, Len(s))>>

\* s.split(":")[-1]
LastField(s) == SubSeq(s, LastIndex(s, ":") + 1, Len(s))

\* Python's < on str: by code point, a proper prefix first.
RECURSIVE StrLess(_, _)
StrLess(a, b) ==
    IF b = <<>> THEN FALSE
    ELSE IF a = <<>> THEN TRUE
    ELSE IF Head(a) # Head(b) THEN Ord(Head(a)) < Ord(Head(b))
    ELSE StrLess(Tail(a), Tail(b))

\* Python's < on (str, bool) tuples.
PairLess(p, q) ==
    \/ StrLess(p[1], q[1])
    \/ p[1] = q[1] /\ ~p[2] /\ q[2]

\* Insert p into the sorted sequence s, after its equals.
RECURSIVE Insert(_, _)
Insert(s, p) ==
    IF s = <<>> THEN <<p>>
    ELSE IF PairLess(p, Head(s)) THEN <<p>> \o s
    ELSE <<Head(s)>> \o Insert(Tail(s), p)

\* sorted()
RECURSIVE sorted(_)
sorted(s) ==
    IF s = <<>> THEN <<>> ELSE Insert(sorted(SubSeq(s, 1, Len(s) - 1)), s[Len(s)])

(***************************************************************************)
(* validate_session_name                                                   *)
(***************************************************************************)

\* The character class [a-zA-Z0-9_-].
NameChar(c) == c \in Lower \cup Upper \cup Digit \cup {"_", "-"}

\* re.match(r"^[a-zA-Z0-9_-]+$", name): "$" matches at the end of the string
\* and also just before a newline that is the string's last character.
ReMatchName(name) ==
    LET n == Len(name)
        body == IF n > 0 /\ name[n] = "\n" THEN SubSeq(name, 1, n - 1) ELSE name
    IN  \/ n > 0 /\ \A i \in 1 .. n : NameChar(name[i])
        \/ body # <<>> /\ \A i \in DOMAIN body : NameChar(body[i])

\* TRUE when the name passes, FALSE when typer.Exit(1) is raised.
validate_session_name(name) == ReMatchName(name)

(***************************************************************************)
(* list_remote_sessions: the parse of the listing's stdout                 *)
(***************************************************************************)

\* As ParseLine, but without the test of the prefix.
ParseLine_NoPrefixTest(raw) ==
    LET line == Strip(raw)
    IN  IF LastIndex(line, ":") = 0 THEN <<>>
        ELSE LET nm == RSplitColon(line)[1]
                 at == RSplitColon(line)[2]
             IN  << <<SubSeq(nm, Len(PREFIX) + 1, Len(nm)), at # <<"0">>>> >>

\* One line of the loop body: the entries it appends.
ParseLine(raw) ==
    LET line == Strip(raw)
    IN  IF LastIndex(line, ":") = 0 THEN <<>>
        ELSE LET nm == RSplitColon(line)[1]
                 at == RSplitColon(line)[2]
             IN  IF StartsWith(nm, PREFIX)
                 THEN << <<SubSeq(nm, Len(PREFIX) + 1, Len(nm)), at # <<"0">>>> >>
                 ELSE <<>>

RECURSIVE ParseLines(_)
ParseLines(lines) ==
    IF lines = <<>> THEN <<>>
    ELSE ParseLine(Head(lines)) \o ParseLines(Tail(lines))

\* The sessions list before the final sort.
ParsedSessions(stdout) == ParseLines(SplitLines(Strip(stdout)))

\* As list_remote_sessions, but without the sort of line 97.
list_remote_sessions_Unsorted(stdout) == ParsedSessions(stdout)

\* list_remote_sessions(host), given the stdout its ssh_run call captured.
list_remote_sessions(stdout) == sorted(ParsedSessions(stdout))

(***************************************************************************)
(* ssh_create_session: the scan of the listing's stdout                    *)
(***************************************************************************)

\* As ExistingSession, but without the colon that ends the name.
ExistingSession_NoColon(stdout, full) ==
    LET lines == SplitLines(Strip(stdout))
        hits == {i \in DOMAIN lines : StartsWith(lines[i], full)}
    IN  IF hits = {} THEN <<FALSE, FALSE>>
        ELSE LET i == CHOOSE h \in hits : \A g \in hits : h <= g
             IN  <<TRUE, LastField(lines[i]) # <<"0">>>>

\* As ExistingSession, but attached only for a count of exactly "1".
ExistingSession_OnlyOne(stdout, full) ==
    LET lines == SplitLines(Strip(stdout))
        hits == {i \in DOMAIN lines : StartsWith(lines[i], full \o <<":">>)}
    IN  IF hits = {} THEN <<FALSE, FALSE>>
        ELSE LET i == CHOOSE h \in hits : \A g \in hits : h <= g
             IN  <<TRUE, LastField(lines[i]) = <<"1">>>>

\* Lines 107-113: <<existed, attached>> for the first line that starts with
\* full + ":"; the lines are not stripped one by one here.
ExistingSession(stdout, full) ==
    LET lines == SplitLines(Strip(stdout))
        hits == {i \in DOMAIN lines : StartsWith(lines[i], full \o <<":">>)}
    IN  IF hits = {} THEN <<FALSE, FALSE>>
        ELSE LET i == CHOOSE h \in hits : \A g \in hits : h <= g
             IN  <<TRUE, LastField(lines[i]) # <<"0">>>>

(***************************************************************************)
(* Bounds and inputs                                                       *)
(***************************************************************************)

MaxNameLen == 3     \* longest name handed to validate_session_name on its own
MaxLines == 3       \* most lines of a listing handed to list_remote_sessions on its own
MaxWindows == 3     \* most Terminal windows open at once
MaxClients == 2     \* most clients attached to one session
MaxFaults == 1      \* most transport or automation failures in one invocation

None == <<"None">>  \* Python's None, for an option or argument that was not given

web == <<"w", "e", "b">>
web2 == <<"w", "e", "b", "2">>
other == <<"o", "t", "h", "e", "r">>

\* The names a command line may carry: two that match the pattern (one a
\* prefix of the other), the empty string, and one with a space.
InputNames == {web, web2, <<>>, <<"a", " ", "b">>}

\* The sessions the remote tmux server may hold: the tool's and a foreign one.
TmuxNames == {PREFIX \o web, PREFIX \o web2, other}

\* bool(x) for an Optional[str]
Truthy(x) == x # None /\ x # <<>>

\* The dict's get() for the two keys main reads.
ConfigHost == IF "ssh_host" \in DOMAIN config THEN config["ssh_host"] ELSE ""
ConfigAgentFwd ==
    IF "ssh_agent_forwarding" \in DOMAIN config
    THEN config["ssh_agent_forwarding"] ELSE FALSE

SESSION_COLORS ==
    << "blue", "magenta", "cyan", "green", "yellow", "red", "colour39",
       "colour208", "colour135", "colour70", "colour197", "colour33",
       "colour172", "colour48", "colour99", "colour214", "colour168",
       "colour37", "colour190", "colour63" >>

\* What hash(name) may return: str hashes are salted per process, so the value
\* is any integer; these stand for negative, zero, small and large ones.
PyHashValues == {0 - 21, 0 - 1, 0, 19, 20, 41}

\* Python's %, whose result has the sign of the divisor.
PyMod(a, n) == ((a % n) + n) % n

AgentSock == <<"a", "g", "e", "n", "t", ".", "s", "o", "c", "k">>

(***************************************************************************)
(* The remote host: tmux and the channel                                   *)
(***************************************************************************)

RECURSIVE Decimal(_)
Decimal(n) ==
    IF n < 10 THEN <<CharOrder[Ord("0") + n]>>
    ELSE Decimal(n \div 10) \o <<CharOrder[Ord("0") + (n % 10)]>>

\* The orders in which the sessions of S can be listed.
Orders(S) ==
    {f \in [1 .. Cardinality(S) -> S] : \A x \in S : \E i \in DOMAIN f : f[i] = x}

\* tmux list-sessions -F '#{session_name}:#{session_attached}'
RECURSIVE FormatListing(_)
FormatListing(order) ==
    IF order = <<>> THEN <<>>
    ELSE Head(order) \o <<":">> \o Decimal(tmux[Head(order)].clients) \o <<"\n">>
         \o FormatListing(Tail(order))

\* The stdout ssh_run may capture for the listing: empty when the transport
\* fails (ok = FALSE).
ListingOutputs(ok) ==
    IF ok THEN {FormatListing(o) : o \in Orders(DOMAIN tmux)} ELSE {<<>>}

\* Whether ssh reaches the host: a failure is possible while the invocation
\* has met fewer than MaxFaults.
Outcomes == IF faults < MaxFaults THEN {TRUE, FALSE} ELSE {TRUE}

Fault(ok) == IF ok THEN faults ELSE faults + 1

\* What the listing shows of the session table: each session's count of
\* clients, nothing when the transport fails.
Reported(ok) == IF ok THEN [n \in DOMAIN tmux |-> tmux[n].clients] ELSE <<>>

\* subprocess.run's returncode: ssh's own 255, or the remote command's.
Rc(ok, remote) == IF ok THEN remote ELSE 255

\* One entry of the log: a call of ssh_run (the remote command, the session or
\* path it names, what else it carries) or of osascript, and its returncode.
SshCall(op, target, extra, rc) ==
    [kind |-> "ssh", op |-> op, target |-> target, extra |-> extra, rc |-> rc]
OsaCall(op, target, rc) ==
    [kind |-> "osascript", op |-> op, target |-> target, extra |-> None, rc |-> rc]

Without(full) == [n \in DOMAIN tmux \ {full} |-> tmux[n]]

\* A window whose client was attached to a session in gone shows its local
\* shell again.
Ended(ws, gone) ==
    [i \in DOMAIN ws |->
        IF ws[i].state = "attached" /\ ws[i].title \in gone
        THEN [ws[i] EXCEPT !.state = "ended"] ELSE ws[i]]

(***************************************************************************)
(* Terminal.app                                                            *)
(***************************************************************************)

\* close_terminal_windows' condition on a tab's custom title.
TitleMatches(title, name) ==
    IF Truthy(name) THEN title = PREFIX \o name ELSE StartsWith(title, PREFIX)

Matching(name) == {i \in DOMAIN windows : TitleMatches(windows[i].title, name)}

\* The sessions to which a window that close_terminal_windows(name) closes
\* is attached.
LiveTitles(name) ==
    {windows[i].title : i \in {j \in Matching(name) : windows[j].state = "attached"}}

Live(name, full) ==
    Cardinality({i \in Matching(name) :
                    windows[i].state = "attached" /\ windows[i].title = full})

\* The session table after the windows are closed.  "exit" typed into a tab
\* that shows a live session ends the session's shell (kills = TRUE) or is
\* taken by the program running there, and closing the window detaches.
AfterClose(name, kills) ==
    LET keep == IF kills THEN DOMAIN tmux \ LiveTitles(name) ELSE DOMAIN tmux
    IN  [n \in keep |->
            [tmux[n] EXCEPT !.clients =
                IF @ > Live(name, n) THEN @ - Live(name, n) ELSE 0]]

Remaining(name) ==
    SelectSeq(windows, LAMBDA w : ~TitleMatches(w.title, name))

\* close_terminal_windows(name): one osascript call whose result is not read.
close_terminal_windows(name) ==
    \E ok \in Outcomes, kills \in BOOLEAN :
        /\ log' = Append(log, OsaCall("close", name, Rc(ok, 0)))
        /\ faults' = Fault(ok)
        /\ tmux' = IF ok THEN AfterClose(name, kills) ELSE tmux
        /\ windows' = IF ok
                      THEN Ended(Remaining(name),
                                 IF kills THEN LiveTitles(name) ELSE {})
                      ELSE windows

\* As CloseExit, but osascript is run with check=True.
CloseExit_Checked(rc) == IF rc # 0 THEN 1 ELSE 0

\* The exit code of a branch that ends with close_terminal_windows: line 200
\* runs osascript without check and drops the result, so it is 0 whatever rc.
CloseExit(rc) == 0

(***************************************************************************)
(* The state after construction                                            *)
(***************************************************************************)

\* Configurations an invocation may find: no file, a file with an empty host,
\* the file the tests' with_host fixture writes, and what --setup saves with
\* forwarding on.
InitConfigs ==
    { <<>>,
      [ssh_host |-> ""],
      [ssh_host |-> "user@host"],
      [ssh_host |-> "user@host", ssh_agent_forwarding |-> TRUE] }

Forwarding(c) == "ssh_agent_forwarding" \in DOMAIN c /\ c["ssh_agent_forwarding"]

\* Session tables an invocation may find: any of the sessions, each with no
\* client or with one; the tool's sessions carry the environment they were
\* created with.
InitTables ==
    UNION { [S -> {0, 1}] : S \in SUBSET TmuxNames }

InitSession(c, t, n) ==
    [clients |-> t[n],
     auth |-> IF Forwarding(c) /\ StartsWith(n, PREFIX) THEN AgentSock ELSE None]

\* Windows earlier invocations may have left: none, or one of the tool's, whose
\* command has not run yet, or whose client is attached, or whose client ended.
InitWindows(c, t) ==
    {<<>>} \cup
    { <<[title |-> n, state |-> st, agent |-> Forwarding(c),
         sock |-> IF Forwarding(c) THEN AgentSock ELSE None]>> :
        n \in {PREFIX \o web, PREFIX \o web2},
        st \in {"pending", "attached", "ended"} }

WindowsFit(t, ws) ==
    \A i \in DOMAIN ws :
        ws[i].state = "attached" => ws[i].title \in DOMAIN t /\ t[ws[i].title] >= 1

\* The relay directory earlier attaches may have left.
InitRelays(c, ws) ==
    IF \E i \in DOMAIN ws : ws[i].agent /\ ws[i].state # "pending"
    THEN {[dir |-> TRUE, files |-> {AgentSock}]}
    ELSE {[dir |-> FALSE, files |-> {}]}

NotCalled == [done |-> FALSE, val |-> <<>>]

\* No second invocation runs.
NoPeer == [pc |-> "none", created |-> FALSE, opened |-> FALSE, code |-> -1]

Idle ==
    /\ peer = NoPeer
    /\ pc = "idle"
    /\ argv = [name |-> None, setup |-> FALSE, list |-> FALSE,
               remove |-> None, detach |-> FALSE, clear |-> FALSE]
    /\ host = ""
    /\ todo = <<>>
    /\ existed = FALSE
    /\ attached = FALSE
    /\ log = <<>>
    /\ out = <<>>
    /\ exitCode = -1
    /\ faults = 0

Init ==
    /\ arg = <<>>
    /\ ret = NotCalled
    /\ config \in InitConfigs
    /\ \E t \in InitTables :
        /\ tmux = [n \in DOMAIN t |-> InitSession(config, t, n)]
        /\ windows \in {ws \in InitWindows(config, t) : WindowsFit(t, ws)}
    /\ relay \in InitRelays(config, windows)
    /\ Idle

(***************************************************************************)
(* main: lines 212-218 and the choice of the branch                        *)
(***************************************************************************)

B2N(b) == IF b THEN 1 ELSE 0

\* flags = sum([setup, list_sessions, remove is not None, detach, clear])
Flags(a) ==
    B2N(a.setup) + B2N(a.list) + B2N(a.remove # None) + B2N(a.detach) + B2N(a.clear)

\* How many of the six parameters a command line gives.
Given(a) == B2N(a.name # None) + Flags(a)

\* The command lines: at most two parameters given (two are enough for every
\* misuse main tells apart).
Argvs ==
    {a \in [name : InputNames \cup {None}, setup : BOOLEAN, list : BOOLEAN,
            remove : InputNames \cup {None}, detach : BOOLEAN, clear : BOOLEAN] :
        Given(a) <= 2}

\* The branch of main that the command line a selects.
Branch(a) ==
    IF Truthy(a.name) /\ Flags(a) > 0 THEN "combine"
    ELSE IF Flags(a) > 1 THEN "several"
    ELSE IF a.setup THEN "setup"
    ELSE IF a.list THEN "list"
    ELSE IF a.detach THEN "detach"
    ELSE IF a.clear THEN "clear"
    ELSE IF Truthy(a.remove) THEN "remove"
    ELSE IF Truthy(a.name) THEN "name"
    ELSE "resume"

\* The name the branch validates.
BranchName(a) == IF Branch(a) = "remove" THEN a.remove ELSE a.name

\* As HostMissing, but only a configuration without the key counts.
HostMissing_OnlyAbsent == "ssh_host" \notin DOMAIN config

\* require_host's test, not host: the key is absent or the host is empty.
HostMissing == ConfigHost = ""

\* Where main stands before its first call of ssh_run, osascript or input,
\* or "done" with the exit code and the message.
Entry(a) ==
    LET b == Branch(a)
    IN  IF b = "combine" THEN [pc |-> "done", code |-> 1, msg |-> <<"cannot_combine">>]
        ELSE IF b = "several" THEN [pc |-> "done", code |-> 1, msg |-> <<"only_one_option">>]
        ELSE IF b = "setup" THEN [pc |-> "setup", code |-> -1, msg |-> <<>>]
        ELSE IF HostMissing THEN [pc |-> "done", code |-> 1, msg |-> <<"no_host">>]
        ELSE IF b \in {"remove", "name"} /\ ~validate_session_name(BranchName(a))
             THEN [pc |-> "done", code |-> 1, msg |-> <<"invalid_name">>]
        ELSE [pc |-> b, code |-> -1, msg |-> <<>>]

\* A new invocation of ./resume with the command line a.
Main ==
    /\ pc = "idle"
    /\ \E a \in Argvs :
        /\ argv' = a
        /\ pc' = Entry(a).pc
        /\ exitCode' = Entry(a).code
        /\ out' = Entry(a).msg
    /\ host' = ConfigHost
    /\ todo' = <<>>
    /\ existed' = FALSE
    /\ attached' = FALSE
    /\ log' = <<>>
    /\ faults' = 0
    /\ UNCHANGED <<arg, ret, peer, world>>

\* --setup, lines 220-246: the two answers typed, then save_config.
Setup ==
    /\ pc = "setup"
    /\ \E typed \in {"", "user@host"}, answer \in {"", "y", "n"} :
        LET h == IF typed = "" THEN ConfigHost ELSE typed
            fwd == IF answer = "y" THEN TRUE
                   ELSE IF answer = "n" THEN FALSE
                   ELSE ConfigAgentFwd
        IN  IF h = ""
            THEN /\ config' = config
                 /\ exitCode' = 1
                 /\ out' = <<"no_host_provided">>
            ELSE /\ config' = [ssh_host |-> h, ssh_agent_forwarding |-> fwd]
                 /\ exitCode' = 0
                 /\ out' = <<"saved">>
    /\ pc' = "done"
    /\ UNCHANGED <<arg, ret, peer, tmux, relay, windows>>
    /\ UNCHANGED <<argv, host, todo, existed, attached, log, faults>>

(***************************************************************************)
(* --remove NAME, lines 284-289                                            *)
(***************************************************************************)

\* As AfterKill, but the returncode is not read.
AfterKill_NoRaise(rc) == [pc |-> "remove_close", code |-> -1, msg |-> <<>>]

\* As AfterKill, but the failure is reported without raising typer.Exit(1).
AfterKill_NoExit(rc) ==
    IF rc # 0 THEN [pc |-> "remove_close", code |-> -1, msg |-> <<"not_found">>]
    ELSE [pc |-> "remove_close", code |-> -1, msg |-> <<>>]

\* Lines 129-131 of ssh_kill_session, and line 288 after its return.
AfterKill(rc) ==
    IF rc # 0 THEN [pc |-> "done", code |-> 1, msg |-> <<"not_found">>]
    ELSE [pc |-> "remove_close", code |-> -1, msg |-> <<>>]

\* ssh_kill_session(host, remove)
RemoveKill ==
    /\ pc = "remove"
    /\ \E ok \in Outcomes :
        LET full == PREFIX \o argv.remove
            found == ok /\ full \in DOMAIN tmux
            rc == Rc(ok, IF found THEN 0 ELSE 1)
        IN  /\ log' = Append(log, SshCall("kill-session", full, None, rc))
            /\ faults' = Fault(ok)
            /\ tmux' = IF found THEN Without(full) ELSE tmux
            /\ windows' = IF found THEN Ended(windows, {full}) ELSE windows
            /\ pc' = AfterKill(rc).pc
            /\ exitCode' = AfterKill(rc).code
            /\ out' = AfterKill(rc).msg
    /\ UNCHANGED <<arg, ret, peer, config, relay, argv, host, todo, existed, attached>>

\* close_terminal_windows(remove), then the last print.
RemoveClose ==
    /\ pc = "remove_close"
    /\ close_terminal_windows(argv.remove)
    /\ pc' = "done"
    /\ exitCode' = CloseExit(log'[Len(log')].rc)
    /\ out' = <<"removed">>
    /\ UNCHANGED <<arg, ret, peer, config, relay, argv, host, todo, existed, attached>>

(***************************************************************************)
(* NAME, lines 291-302, with ssh_create_session and open_terminal_window   *)
(***************************************************************************)

\* As Resolved, but an attached session is resumed like a detached one.
Resolved_NoShortCircuit(ex, at) ==
    IF ~ex THEN [pc |-> "create_new", code |-> -1, msg |-> <<>>]
    ELSE [pc |-> "open", code |-> -1, msg |-> <<>>]

\* Where main goes on after the scan: line 114 when no session was found,
\* else lines 295-297 with what ssh_create_session returned.
Resolved(ex, at) ==
    IF ~ex THEN [pc |-> "create_new", code |-> -1, msg |-> <<>>]
    ELSE IF at THEN [pc |-> "done", code |-> 0, msg |-> <<"already_attached">>]
    ELSE [pc |-> "open", code |-> -1, msg |-> <<>>]

\* ssh_create_session, lines 102-113: the listing and its scan.  A session
\* that exists makes the function return, and main goes on at line 295.
CreateList ==
    /\ pc = "name"
    /\ \E ok \in Outcomes :
        \E stdout \in ListingOutputs(ok) :
            LET r == ExistingSession(stdout, PREFIX \o argv.name)
            IN  /\ log' = Append(log, SshCall("list-sessions", <<>>, Reported(ok), Rc(ok, 0)))
                /\ faults' = Fault(ok)
                /\ existed' = r[1]
                /\ attached' = r[2]
                /\ pc' = Resolved(r[1], r[2]).pc
                /\ exitCode' = Resolved(r[1], r[2]).code
                /\ out' = Resolved(r[1], r[2]).msg
    /\ UNCHANGED <<arg, ret, peer, world, argv, host, todo>>

\* Lines 114-117: tmux new-session -d -s full, with check=True.
CreateNew ==
    /\ pc = "create_new"
    /\ \E ok \in Outcomes :
        LET full == PREFIX \o argv.name
            env == IF ConfigAgentFwd THEN AgentSock ELSE None
            created == ok /\ full \notin DOMAIN tmux
            rc == Rc(ok, IF created THEN 0 ELSE 1)
        IN  /\ log' = Append(log, SshCall("new-session -d", full, env, rc))
            /\ faults' = Fault(ok)
            /\ tmux' = IF created
                       THEN [n \in DOMAIN tmux \cup {full} |->
                                IF n = full THEN [clients |-> 0, auth |-> env]
                                ELSE tmux[n]]
                       ELSE tmux
            /\ IF rc # 0
               THEN pc' = "done" /\ exitCode' = 1 /\ out' = <<"CalledProcessError">>
               ELSE pc' = "create_style" /\ UNCHANGED <<exitCode, out>>
    /\ UNCHANGED <<arg, ret, peer, config, relay, windows, argv, host, todo, existed, attached>>

\* The palette entry line 118 selects for the hash value h.
ColorIndex(h) == PyMod(h, Len(SESSION_COLORS))
Color(h) == SESSION_COLORS[ColorIndex(h) + 1]

\* Lines 118-119: tmux set -t full status-style; the returncode is not read.
CreateStyle ==
    /\ pc = "create_style"
    /\ \E ok \in Outcomes, h \in PyHashValues :
        LET full == PREFIX \o argv.name
            rc == Rc(ok, IF full \in DOMAIN tmux THEN 0 ELSE 1)
        IN  /\ log' = Append(log, SshCall("set status-style", full, Color(h), rc))
            /\ faults' = Fault(ok)
    /\ pc' = "open"
    /\ UNCHANGED <<arg, ret, peer, world, argv, host, todo, existed, attached, exitCode, out>>

\* As NewWindow, but the title is the bare name.
NewWindow_BareTitle(full) ==
    [title |-> SubSeq(full, Len(PREFIX) + 1, Len(full)), state |-> "pending",
     agent |-> ConfigAgentFwd,
     sock |-> IF ConfigAgentFwd THEN AgentSock ELSE None]

\* The window osascript opens: it runs ssh ... tmux attach -t full, with -A and
\* the relay setup for the path sock in front when agent forwarding is
\* configured.
NewWindow(full) ==
    [title |-> full, state |-> "pending", agent |-> ConfigAgentFwd,
     sock |-> IF ConfigAgentFwd THEN AgentSock ELSE None]

\* The osascript call that opens it, with the relay path its script names.
OpenCall(full, rc) == [OsaCall("open", full, rc) EXCEPT !.extra = NewWindow(full).sock]

\* open_terminal_window(host, name), with check=True, then lines 299-302.
ResolveOpen ==
    /\ pc = "open"
    /\ Len(windows) < MaxWindows
    /\ \E ok \in Outcomes :
        LET full == PREFIX \o argv.name
        IN  /\ log' = Append(log, OpenCall(full, Rc(ok, 0)))
            /\ faults' = Fault(ok)
            /\ IF ok
               THEN /\ windows' = Append(windows, NewWindow(full))
                    /\ exitCode' = 0
                    /\ out' = IF existed THEN <<"resuming">> ELSE <<"created">>
               ELSE /\ windows' = windows
                    /\ exitCode' = 1
                    /\ out' = <<"CalledProcessError">>
    /\ pc' = "done"
    /\ UNCHANGED <<arg, ret, peer, config, tmux, relay, argv, host, todo, existed, attached>>

(***************************************************************************)
(* What happens outside the invocation                                     *)
(***************************************************************************)

\* The command of window i runs on the host: with agent forwarding, mkdir,
\* ln -sf and tmux set-environment come first, each only if the one before
\* succeeded; then tmux attach.
WindowAttach ==
    /\ \E i \in DOMAIN windows :
        LET w == windows[i]
            alive == w.title \in DOMAIN tmux
        IN  /\ w.state = "pending"
            /\ alive => tmux[w.title].clients < MaxClients
            /\ relay' = IF w.agent
                        THEN [dir |-> TRUE, files |-> relay.files \cup {w.sock}]
                        ELSE relay
            /\ tmux' = IF alive
                       THEN [tmux EXCEPT ![w.title] =
                                [clients |-> @.clients + 1,
                                 auth |-> IF w.agent THEN w.sock ELSE @.auth]]
                       ELSE tmux
            /\ windows' = [windows EXCEPT ![i].state =
                              IF alive THEN "attached" ELSE "ended"]
    /\ UNCHANGED <<arg, ret, peer, config, locals>>

(***************************************************************************)
(* --list, --detach, --clear and no argument                               *)
(***************************************************************************)

\* The call of list_remote_sessions(host) that opens each of these branches:
\* the log entry and the sorted snapshot.
Snapshot(P(_)) ==
    \E ok \in Outcomes :
        \E stdout \in ListingOutputs(ok) :
            /\ log' = Append(log, SshCall("list-sessions", <<>>, Reported(ok), Rc(ok, 0)))
            /\ faults' = Fault(ok)
            /\ P(list_remote_sessions(stdout))

\* As NamesWith, but the flag is not looked at.
NamesWith_IgnoreFlag(sessions, flag) == [i \in DOMAIN sessions |-> sessions[i][1]]

\* [s for s, a in sessions if a = flag]
RECURSIVE NamesWith(_, _)
NamesWith(sessions, flag) ==
    IF sessions = <<>> THEN <<>>
    ELSE (IF Head(sessions)[2] = flag THEN <<Head(sessions)[1]>> ELSE <<>>)
         \o NamesWith(Tail(sessions), flag)

\* As Names, but only the first session is taken.
Names_FirstOnly(sessions) ==
    IF sessions = <<>> THEN <<>> ELSE <<sessions[1][1]>>

\* [s for s, _ in sessions]
Names(sessions) == [i \in DOMAIN sessions |-> sessions[i][1]]

\* Lines 248-257.
ListSessions ==
    /\ pc = "list"
    /\ Snapshot(LAMBDA sessions :
            /\ todo' = sessions
            /\ out' = IF sessions = <<>> THEN <<"no_sessions">> ELSE <<"sessions">>)
    /\ pc' = "done"
    /\ exitCode' = 0
    /\ UNCHANGED <<arg, ret, peer, world, argv, host, existed, attached>>

\* Lines 259-263 and 267-268.
DetachList ==
    /\ pc = "detach"
    /\ Snapshot(LAMBDA sessions :
            /\ todo' = NamesWith(sessions, TRUE)
            /\ IF NamesWith(sessions, TRUE) # <<>>
               THEN pc' = "detach_loop" /\ out' = out
               ELSE pc' = "detach_close" /\ out' = <<"no_attached">>)
    /\ UNCHANGED <<arg, ret, peer, world, argv, host, existed, attached, exitCode>>

\* Lines 264-266: one pass of the loop; the returncode is not read.
DetachStep ==
    /\ pc = "detach_loop"
    /\ \E ok \in Outcomes :
        LET full == PREFIX \o Head(todo)
            found == ok /\ full \in DOMAIN tmux
        IN  /\ log' = Append(log, SshCall("detach-client", full, None,
                                          Rc(ok, IF found THEN 0 ELSE 1)))
            /\ faults' = Fault(ok)
            /\ tmux' = IF found THEN [tmux EXCEPT ![full].clients = 0] ELSE tmux
            /\ windows' = IF found THEN Ended(windows, {full}) ELSE windows
    /\ todo' = Tail(todo)
    /\ IF Tail(todo) = <<>>
       THEN pc' = "detach_close" /\ out' = <<"detached">>
       ELSE pc' = pc /\ out' = out
    /\ UNCHANGED <<arg, ret, peer, config, relay, argv, host, existed, attached, exitCode>>

\* Line 269.
DetachClose ==
    /\ pc = "detach_close"
    /\ close_terminal_windows(None)
    /\ pc' = "done"
    /\ exitCode' = CloseExit(log'[Len(log')].rc)
    /\ UNCHANGED <<arg, ret, peer, config, relay, argv, host, todo, existed, attached, out>>

\* Lines 271-275 and 280-281.
ClearList ==
    /\ pc = "clear"
    /\ Snapshot(LAMBDA sessions :
            /\ todo' = Names(sessions)
            /\ IF sessions # <<>>
               THEN pc' = "clear_loop" /\ out' = out
               ELSE pc' = "clear_close" /\ out' = <<"no_sessions">>)
    /\ UNCHANGED <<arg, ret, peer, world, argv, host, existed, attached, exitCode>>

\* Lines 276-277: one pass of the loop; the returncode is not read.
ClearKill ==
    /\ pc = "clear_loop"
    /\ \E ok \in Outcomes :
        LET full == PREFIX \o Head(todo)
            found == ok /\ full \in DOMAIN tmux
        IN  /\ log' = Append(log, SshCall("kill-session", full, None,
                                          Rc(ok, IF found THEN 0 ELSE 1)))
            /\ faults' = Fault(ok)
            /\ tmux' = IF found THEN Without(full) ELSE tmux
            /\ windows' = IF found THEN Ended(windows, {full}) ELSE windows
    /\ todo' = Tail(todo)
    /\ pc' = IF Tail(todo) = <<>> THEN "clear_rm" ELSE pc
    /\ UNCHANGED <<arg, ret, peer, config, relay, argv, host, existed, attached, exitCode, out>>

\* Lines 278-279: rm -rf /tmp/resume.
ClearRm ==
    /\ pc = "clear_rm"
    /\ \E ok \in Outcomes :
        /\ log' = Append(log, SshCall("rm -rf", <<>>, None, Rc(ok, 0)))
        /\ faults' = Fault(ok)
        /\ relay' = IF ok THEN [dir |-> FALSE, files |-> {}] ELSE relay
    /\ pc' = "clear_close"
    /\ out' = <<"killed">>
    /\ UNCHANGED <<arg, ret, peer, config, tmux, windows, argv, host, todo, existed, attached, exitCode>>

\* Line 282.
ClearClose ==
    /\ pc = "clear_close"
    /\ close_terminal_windows(None)
    /\ pc' = "done"
    /\ exitCode' = CloseExit(log'[Len(log')].rc)
    /\ UNCHANGED <<arg, ret, peer, config, relay, argv, host, todo, existed, attached, out>>

\* Lines 304-310.
ResumeList ==
    /\ pc = "resume"
    /\ Snapshot(LAMBDA sessions :
            /\ todo' = NamesWith(sessions, FALSE)
            /\ IF NamesWith(sessions, FALSE) = <<>>
               THEN pc' = "done" /\ exitCode' = 0 /\ out' = <<"no_detached">>
               ELSE pc' = "resume_loop" /\ exitCode' = exitCode /\ out' = out)
    /\ UNCHANGED <<arg, ret, peer, world, argv, host, existed, attached>>

\* Lines 311-313: one pass of the loop, open_terminal_window with check=True.
ResumeOpen ==
    /\ pc = "resume_loop"
    /\ Len(windows) < MaxWindows
    /\ \E ok \in Outcomes :
        LET full == PREFIX \o Head(todo)
        IN  /\ log' = Append(log, OpenCall(full, Rc(ok, 0)))
            /\ faults' = Fault(ok)
            /\ IF ~ok
               THEN /\ windows' = windows
                    /\ todo' = todo
                    /\ pc' = "done" /\ exitCode' = 1 /\ out' = <<"CalledProcessError">>
               ELSE /\ windows' = Append(windows, NewWindow(full))
                    /\ todo' = Tail(todo)
                    /\ IF Tail(todo) = <<>>
                       THEN pc' = "done" /\ exitCode' = 0 /\ out' = <<"resumed">>
                       ELSE pc' = pc /\ exitCode' = exitCode /\ out' = out
    /\ UNCHANGED <<arg, ret, peer, config, tmux, relay, argv, host, existed, attached>>

(***************************************************************************)
(* The program                                                             *)
(***************************************************************************)

Next ==
    \/ Main
    \/ Setup
    \/ ListSessions
    \/ DetachList
    \/ DetachStep
    \/ DetachClose
    \/ ClearList
    \/ ClearKill
    \/ ClearRm
    \/ ClearClose
    \/ RemoveKill
    \/ RemoveClose
    \/ CreateList
    \/ CreateNew
    \/ CreateStyle
    \/ ResolveOpen
    \/ ResumeList
    \/ ResumeOpen
    \/ WindowAttach

Spec == Init /\ [][Next]_vars

\* The invocation with no other actor beside it: the windows opened earlier
\* run their command before the invocation starts, or after it has ended.
AttachAside == pc \in {"idle", "done"} /\ WindowAttach

NextAlone ==
    \/ Main
    \/ Setup
    \/ ListSessions
    \/ DetachList
    \/ DetachStep
    \/ DetachClose
    \/ ClearList
    \/ ClearKill
    \/ ClearRm
    \/ ClearClose
    \/ RemoveKill
    \/ RemoveClose
    \/ CreateList
    \/ CreateNew
    \/ CreateStyle
    \/ ResolveOpen
    \/ ResumeList
    \/ ResumeOpen
    \/ AttachAside

SpecAlone == Init /\ [][NextAlone]_vars

(***************************************************************************)
(* Two invocations of ./resume NAME for one name that is absent            *)
(***************************************************************************)

\* ./resume NAME for a session that is not on the host and has no window.
MainResolve ==
    /\ Main
    /\ Branch(argv') = "name"
    /\ PREFIX \o argv'.name \notin DOMAIN tmux
    /\ \A i \in DOMAIN windows : windows[i].title # PREFIX \o argv'.name

\* The second invocation is started, with the same NAME, while the first runs
\* and the session is still absent; it passes lines 212-293 as the first did.
PeerStart ==
    /\ pc \notin {"idle", "done"}
    /\ Branch(argv) = "name"
    /\ peer.pc = "none"
    /\ PREFIX \o argv.name \notin DOMAIN tmux
    /\ peer' = [peer EXCEPT !.pc = "name"]
    /\ UNCHANGED <<arg, ret, world, locals>>

\* Its ssh_create_session, lines 102-113.
PeerList ==
    /\ peer.pc = "name"
    /\ \E stdout \in ListingOutputs(TRUE) :
        LET r == ExistingSession(stdout, PREFIX \o argv.name)
        IN  peer' = [peer EXCEPT !.pc = Resolved(r[1], r[2]).pc,
                                 !.code = Resolved(r[1], r[2]).code]
    /\ UNCHANGED <<arg, ret, world, locals>>

\* Its lines 114-117: tmux refuses a second session of the same name, and
\* check=True raises.
PeerCreate ==
    /\ peer.pc = "create_new"
    /\ LET full == PREFIX \o argv.name
           env == IF ConfigAgentFwd THEN AgentSock ELSE None
           created == full \notin DOMAIN tmux
       IN  /\ tmux' = IF created
                      THEN [n \in DOMAIN tmux \cup {full} |->
                               IF n = full THEN [clients |-> 0, auth |-> env]
                               ELSE tmux[n]]
                      ELSE tmux
           /\ peer' = IF created
                      THEN [peer EXCEPT !.pc = "create_style", !.created = TRUE]
                      ELSE [peer EXCEPT !.pc = "done", !.code = 1]
    /\ UNCHANGED <<arg, ret, config, relay, windows, locals>>

\* Its lines 118-119.
PeerStyle ==
    /\ peer.pc = "create_style"
    /\ peer' = [peer EXCEPT !.pc = "open"]
    /\ UNCHANGED <<arg, ret, world, locals>>

\* Its open_terminal_window, and lines 299-302.
PeerOpen ==
    /\ peer.pc = "open"
    /\ Len(windows) < MaxWindows
    /\ windows' = Append(windows, NewWindow(PREFIX \o argv.name))
    /\ peer' = [peer EXCEPT !.pc = "done", !.opened = TRUE, !.code = 0]
    /\ UNCHANGED <<arg, ret, config, tmux, relay, locals>>

NextPair ==
    \/ MainResolve
    \/ CreateList
    \/ CreateNew
    \/ CreateStyle
    \/ ResolveOpen
    \/ WindowAttach
    \/ PeerStart
    \/ PeerList
    \/ PeerCreate
    \/ PeerStyle
    \/ PeerOpen

SpecPair == Init /\ [][NextPair]_vars

(***************************************************************************)
(* validate_session_name called on its own                                 *)
(***************************************************************************)

\* Characters of the names tried: letters of both cases, a digit, the two
\* punctuation marks of the class, and characters outside it.
ValidateChars == {"a", "Z", "7", "_", "-", " ", "\n", ";", "&", "$"}

Strings(chars, n) == UNION {[1 .. k -> chars] : k \in 0 .. n}

\* No invocation of main is under way and the host is untouched.
Quiet ==
    /\ config = <<>>
    /\ tmux = <<>>
    /\ relay = [dir |-> FALSE, files |-> {}]
    /\ windows = <<>>
    /\ Idle

InitValidate ==
    /\ arg \in Strings(ValidateChars, MaxNameLen)
    /\ ret = NotCalled
    /\ Quiet

Validate ==
    /\ ~ret.done
    /\ ret' = [done |-> TRUE, val |-> validate_session_name(arg)]
    /\ UNCHANGED <<arg, peer, world, locals>>

SpecValidate == InitValidate /\ [][Validate]_vars

\* C1: validate_session_name accepts a name if and only if it is non-empty and
\* made only of letters, digits, '_' and '-'; every other name is rejected.
C1_AcceptsExactlyPattern ==
    ret.done =>
        (ret.val <=> (arg # <<>> /\ \A i \in DOMAIN arg : NameChar(arg[i])))

(***************************************************************************)
(* list_remote_sessions called on its own                                  *)
(***************************************************************************)

\* A line of a listing: white space, the session's name (the prefix or not,
\* then the rest), a colon and the count or neither, white space.
Line(lead, prefixed, base, colon, count, trail) ==
    [lead |-> lead, prefixed |-> prefixed, base |-> base,
     colon |-> colon, count |-> count, trail |-> trail]

Plain(prefixed, base, count) == Line(<<>>, prefixed, base, TRUE, count, <<>>)

api == <<"a", "p", "i">>

LineInputs ==
    { Plain(TRUE, web, <<"0">>), Plain(TRUE, web, <<"1">>),
      Plain(TRUE, api, <<"0">>), Plain(TRUE, api, <<"1">>),
      Plain(TRUE, web, <<"1", "0">>),
      Plain(TRUE, web, <<>>),
      Plain(TRUE, <<"W", "e", "b">>, <<"0">>),
      Plain(TRUE, <<>>, <<"1">>),
      Plain(TRUE, <<"a", ":", "b">>, <<"0">>),
      Plain(FALSE, other, <<"0">>), Plain(FALSE, other, <<"1">>),
      Plain(FALSE, <<"r", "e", "s", "u", "m", "e", "w", "e", "b">>, <<"0">>),
      Line(<<>>, FALSE, <<"b", "a", "d", "l", "i", "n", "e">>, FALSE, <<>>, <<>>),
      Line(<<>>, TRUE, web, FALSE, <<>>, <<>>),
      Line(<<>>, FALSE, <<>>, FALSE, <<>>, <<>>),
      Line(<<" ">>, TRUE, web, TRUE, <<"0">>, <<>>),
      Line(<<>>, TRUE, api, TRUE, <<"1">>, <<" ">>),
      Line(<<"\t">>, FALSE, other, TRUE, <<"0">>, <<" ">>) }

LineText(l) ==
    l.lead \o (IF l.prefixed THEN PREFIX ELSE <<>>) \o l.base
    \o (IF l.colon THEN <<":">> \o l.count ELSE <<>>) \o l.trail

\* The stdout that holds the lines, each ended by a newline.
RECURSIVE Text(_)
Text(lines) ==
    IF lines = <<>> THEN <<>>
    ELSE LineText(Head(lines)) \o <<"\n">> \o Text(Tail(lines))

InitListing ==
    /\ arg \in Strings(LineInputs, MaxLines)
    /\ ret = NotCalled
    /\ Quiet

Listing ==
    /\ ~ret.done
    /\ ret' = [done |-> TRUE, val |-> list_remote_sessions(Text(arg))]
    /\ UNCHANGED <<arg, peer, world, locals>>

SpecListing == InitListing /\ [][Listing]_vars

\* The entry a line stands for: lines with a colon whose name has the prefix.
Listed(l) == l.colon /\ l.prefixed
EntryOf(l) == <<l.base, l.count # <<"0">>>>

Occurrences(seq, x) == Cardinality({i \in DOMAIN seq : seq[i] = x})

\* C3: list_remote_sessions returns exactly the pairs (name without the prefix,
\* count is not "0") of the lines name:count whose name has the prefix, each as
\* often as its line occurs, in ascending order of the names; other lines add
\* nothing.
C3_ListingExact ==
    ret.done =>
        LET r == ret.val
            entries == [i \in DOMAIN arg |-> EntryOf(arg[i])]
            listed == {i \in DOMAIN arg : Listed(arg[i])}
        IN  /\ Len(r) = Cardinality(listed)
            /\ \A i \in listed :
                   Occurrences(r, entries[i])
                       = Cardinality({j \in listed : entries[j] = entries[i]})
            /\ \A i, j \in DOMAIN r : i < j => ~StrLess(r[j][1], r[i][1])

\* The listing of the tests: web detached, api attached, a foreign session.
C3_Witness ==
    /\ ret.done
    /\ arg = << Plain(TRUE, web, <<"0">>), Plain(TRUE, api, <<"1">>),
                Plain(FALSE, other, <<"0">>) >>
    /\ ret.val = << <<api, TRUE>>, <<web, FALSE>> >>

(***************************************************************************)
(* Properties of one invocation of main                                    *)
(***************************************************************************)

Started == pc # "idle"

\* The calls of ssh_run so far, and those of osascript.
SshLog == SelectSeq(log, LAMBDA e : e.kind = "ssh")
OsaLog == SelectSeq(log, LAMBDA e : e.kind = "osascript")

\* The session the NAME or --remove branch is about.
Full == PREFIX \o BranchName(argv)

\* The names the command line supplies.
SuppliedNames == {argv.name, argv.remove} \ {None}

\* C2: on both entry points that take a name (NAME and --remove NAME), a name
\* that fails validation ends the invocation with a nonzero exit code before any
\* remote command is issued and before any window is opened or closed.
C2_InvalidNameStopsEarly ==
    (/\ Started
     /\ Given(argv) = 1
     /\ \E n \in SuppliedNames : ~validate_session_name(n))
        => /\ log = <<>>
           /\ pc = "done" => exitCode # 0

\* The NAME branch has made its listing query; Table is what the host listed.
Scanned == Started /\ Branch(argv) = "name" /\ log # <<>>
Table == log[1].extra

\* ssh_create_session has returned to main.
CreateReturned ==
    /\ Scanned
    /\ \/ pc = "open"
       \/ pc = "done" /\ out = <<"already_attached">>
       \/ pc = "done" /\ log[Len(log)].kind = "osascript"

\* C4: when the listing holds no session resume-NAME, ssh_create_session
\* issues, after the one listing query, exactly one new-session for the prefixed
\* name and then exactly one status-style command for it, and returns
\* (existed, attached) = (FALSE, FALSE).
C4_CreatesWhenAbsent ==
    (CreateReturned /\ Full \notin DOMAIN Table)
        => /\ ~existed
           /\ ~attached
           /\ Len(SshLog) = 3
           /\ SshLog[1].op = "list-sessions"
           /\ SshLog[2].op = "new-session -d"
           /\ SshLog[2].target = Full
           /\ SshLog[2].rc = 0
           /\ SshLog[3].op = "set status-style"
           /\ SshLog[3].target = Full

\* resume-web is created although the listing holds resume-web2.
C4_Witness ==
    /\ CreateReturned
    /\ pc = "open"
    /\ argv.name = web
    /\ DOMAIN Table = {PREFIX \o web2}
    /\ Len(log) = 3

\* C5: when the listing holds a session named exactly resume-NAME,
\* ssh_create_session issues the listing query and nothing else, and returns
\* (TRUE, a) with a true iff the session's count of clients is not zero; a
\* session whose name only starts with resume-NAME does not make it exist.
C5_ExistingUntouched ==
    Scanned
        => /\ existed <=> Full \in DOMAIN Table
           /\ Full \in DOMAIN Table
                => /\ attached <=> Table[Full] # 0
                   /\ Len(SshLog) = 1
                   /\ SshLog[1].op = "list-sessions"

\* resume-web is found with two clients, beside resume-web2.
C5_Witness ==
    /\ CreateReturned
    /\ argv.name = web
    /\ PREFIX \o web2 \in DOMAIN Table
    /\ PREFIX \o web \in DOMAIN Table
    /\ Table[PREFIX \o web] = 2
    /\ existed
    /\ attached

\* C6: NAME on a session the listing reports as attached ends at once: no window
\* is opened, no remote command follows the listing, the exit code is 0 and the
\* message is "already attached".
C6_AttachedShortCircuits ==
    (Scanned /\ Full \in DOMAIN Table /\ Table[Full] # 0)
        => /\ pc = "done"
           /\ exitCode = 0
           /\ out = <<"already_attached">>
           /\ Len(log) = 1

\* The session has one client, and a window with its title is open.
C6_Witness ==
    /\ Scanned
    /\ Full \in DOMAIN Table
    /\ Table[Full] = 1
    /\ pc = "done"
    /\ \E i \in DOMAIN windows : windows[i].title = Full

\* C7, at the end of a NAME invocation that did not find the session attached:
\* exactly one osascript call, opening a window titled resume-NAME, as the last
\* call; after the listing alone when the session was listed (detached), after a
\* successful new-session when it was not.
C7_AtExit ==
    (Scanned /\ pc = "done" /\ exitCode = 0 /\ out # <<"already_attached">>)
        => /\ Len(OsaLog) = 1
           /\ OsaLog[1].op = "open"
           /\ OsaLog[1].target = Full
           /\ log[Len(log)] = OsaLog[1]
           /\ IF Full \in DOMAIN Table
              THEN Len(log) = 2
              ELSE \E i \in 1 .. Len(log) - 1 :
                       /\ log[i].op = "new-session -d"
                       /\ log[i].target = Full
                       /\ log[i].rc = 0

\* C7, for each step of a NAME invocation: the successful open adds one window
\* titled resume-NAME and no other; no step of main raises a session's count of
\* clients (only the window's own command does).
C7_Step ==
    (locals' # locals /\ pc' # "idle" /\ Branch(argv') = "name")
        => /\ (pc = "open" /\ exitCode' = 0)
                => /\ Len(windows') = Len(windows) + 1
                   /\ SubSeq(windows', 1, Len(windows)) = windows
                   /\ windows'[Len(windows')].title = PREFIX \o argv.name
                   /\ windows'[Len(windows')].state = "pending"
           /\ pc # "open" => windows' = windows
           /\ \A n \in DOMAIN tmux' :
                  tmux'[n].clients <= IF n \in DOMAIN tmux THEN tmux[n].clients ELSE 0

\* C7: NAME on a valid name opens exactly one window titled resume-NAME when the
\* session is absent or detached, after the create when it is absent and with no
\* remote change before the window when it is detached; main never attaches.
C7_ResolveOpensOneWindow == [](C7_AtExit) /\ [][C7_Step]_vars

\* A session was created and its window opened.
C7_Witness ==
    /\ Scanned
    /\ pc = "done"
    /\ exitCode = 0
    /\ out = <<"created">>
    /\ Len(log) = 4
    /\ windows # <<>>
    /\ windows[Len(windows)].title = Full

\* The sequence of the titles other than t.
OtherTitles(ws, t) ==
    LET rest == SelectSeq(ws, LAMBDA w : w.title # t)
    IN  [i \in DOMAIN rest |-> rest[i].title]

\* C8, in every state of a --remove invocation: a call that closes windows comes
\* after a kill-session of resume-NAME that returned 0, names NAME, and is made
\* at most once, exactly once when the invocation succeeds.
C8_InLog ==
    (Started /\ Branch(argv) = "remove")
        => /\ \A i \in DOMAIN log :
                log[i].kind = "osascript"
                    => /\ log[i].op = "close"
                       /\ log[i].target = argv.remove
                       /\ \E j \in 1 .. i - 1 :
                              /\ log[j].op = "kill-session"
                              /\ log[j].target = Full
                              /\ log[j].rc = 0
           /\ Len(OsaLog) <= 1
           /\ (pc = "done" /\ exitCode = 0) => Len(OsaLog) = 1

\* C8, for the closing step: windows with another title stay open, those titled
\* resume-NAME are closed when osascript succeeds.
C8_Step ==
    (pc = "remove_close" /\ pc' = "done")
        => /\ OtherTitles(windows', Full) = OtherTitles(windows, Full)
           /\ log'[Len(log')].rc = 0
                => \A i \in DOMAIN windows' : windows'[i].title # Full

\* C8: in --remove NAME the kill of resume-NAME has returned successfully before
\* the windows are closed; the close is called exactly once, for that name with
\* an exact match of the title, and never before the kill.
C8_KillBeforeClose == [](C8_InLog) /\ [][C8_Step]_vars

\* resume-web was killed and its window closed while one titled resume-web2
\* stays open.
C8_Witness ==
    /\ Started
    /\ Branch(argv) = "remove"
    /\ argv.remove = web
    /\ pc = "done"
    /\ exitCode = 0
    /\ Len(log) = 2
    /\ log[2].rc = 0
    /\ \E i \in DOMAIN windows : windows[i].title = PREFIX \o web2

\* The per-session relay alias under /tmp/resume.
AliasOf(name) == PREFIX \o name \o <<".", "s", "o", "c", "k">>

\* C9: a successful --remove NAME issues, after the kill, the remote command
\* rm -f /tmp/resume/resume-NAME.sock as its last remote command.
C9_RemoveDeletesAlias ==
    (Started /\ Branch(argv) = "remove" /\ pc = "done" /\ exitCode = 0)
        => /\ Len(SshLog) >= 2
           /\ SshLog[1].op = "kill-session"
           /\ SshLog[Len(SshLog)].op = "rm -f"
           /\ SshLog[Len(SshLog)].target = AliasOf(argv.remove)

\* C10: --remove NAME whose kill returns a nonzero status ends with the
\* "not found" message and exit code 1; no window is closed and no other remote
\* command is issued.
C10_KillFailureIsNotFound ==
    (Started /\ Branch(argv) = "remove" /\ log # <<>> /\ log[1].rc # 0)
        => /\ pc = "done"
           /\ exitCode = 1
           /\ out = <<"not_found">>
           /\ Len(log) = 1
           /\ log[1].op = "kill-session"

\* The session is not on the host, and a window with its title is open.
C10_Witness ==
    /\ Started
    /\ Branch(argv) = "remove"
    /\ log # <<>>
    /\ log[1].rc = 1
    /\ Full \notin DOMAIN tmux
    /\ \E i \in DOMAIN windows : windows[i].title = Full
    /\ pc = "done"

(***************************************************************************)
(* Properties of the relay, of the batch branches and of misuse            *)
(***************************************************************************)

\* The calls that name a relay path: new-session with -e SSH_AUTH_SOCK=..., and
\* the opening of a window whose script links and exports the path.
RelayCalls ==
    {i \in DOMAIN log : log[i].op \in {"new-session -d", "open"} /\ log[i].extra # None}

\* The name of the session full without the prefix.
Bare(full) == SubSeq(full, Len(PREFIX) + 1, Len(full))

\* C11: with forwarding enabled, the relay path named when a session is created
\* and when a window is opened for it is the session's own
\* /tmp/resume/resume-NAME.sock, and two calls for different sessions never
\* name the same path.
C11_AliasPerSession ==
    (Started /\ ConfigAgentFwd)
        => /\ \A i \in DOMAIN log :
                log[i].op \in {"new-session -d", "open"}
                    => log[i].extra = AliasOf(Bare(log[i].target))
           /\ \A i, j \in RelayCalls :
                log[i].target # log[j].target => log[i].extra # log[j].extra

\* A batch branch has taken its snapshot; Snap is the tool's sessions in it.
BatchListed(b) == Started /\ Branch(argv) = b /\ log # <<>>
Snap == {n \in DOMAIN Table : StartsWith(n, PREFIX)}

\* The calls of the log at the positions from a to b name each session of S
\* exactly once, with the remote command op.
OnePerSession(l, a, b, op, S) ==
    /\ b - a + 1 = Cardinality(S)
    /\ \A i \in a .. b : l[i].op = op /\ l[i].target \in S
    /\ \A n \in S : \E i \in a .. b : l[i].target = n

\* C12: at the end of --clear on a snapshot of n sessions, the remote commands
\* after the listing are n kill-session, one for each session of the snapshot
\* whatever its count of clients, then one rm -rf /tmp/resume when n >= 1 (none
\* when n = 0); windows are closed by exactly one call, the last, for all
\* prefixed titles; the exit code is 0.
C12_ClearKillsAllThenSweeps ==
    (BatchListed("clear") /\ pc = "done")
        => LET n == Cardinality(Snap)
           IN  /\ exitCode = 0
               /\ SshLog[1].op = "list-sessions"
               /\ Len(SshLog) = IF n = 0 THEN 1 ELSE n + 2
               /\ OnePerSession(SshLog, 2, n + 1, "kill-session", Snap)
               /\ n >= 1 => SshLog[n + 2].op = "rm -rf"
               /\ Len(OsaLog) = 1
               /\ OsaLog[1].op = "close"
               /\ OsaLog[1].target = None
               /\ log[Len(log)] = OsaLog[1]

\* Two sessions, one with a client and one without, were both killed.
C12_Witness ==
    /\ BatchListed("clear")
    /\ pc = "done"
    /\ Snap = {PREFIX \o web, PREFIX \o web2}
    /\ Table[PREFIX \o web] = 1
    /\ Table[PREFIX \o web2] = 0
    /\ Len(log) = 5
    /\ \A i \in 2 .. 3 : log[i].rc = 0

\* The sessions of the snapshot with a client, and those without.
SnapAttached == {n \in Snap : Table[n] # 0}
SnapDetached == {n \in Snap : Table[n] = 0}

\* C13, at the end of --detach: the remote commands after the listing are one
\* detach-client for each session the snapshot shows attached and nothing else;
\* windows are closed by exactly one call, the last, for all prefixed titles;
\* the exit code is 0.
C13_AtExit ==
    (BatchListed("detach") /\ pc = "done")
        => LET n == Cardinality(SnapAttached)
           IN  /\ exitCode = 0
               /\ SshLog[1].op = "list-sessions"
               /\ Len(SshLog) = n + 1
               /\ OnePerSession(SshLog, 2, n + 1, "detach-client", SnapAttached)
               /\ Len(OsaLog) = 1
               /\ OsaLog[1].op = "close"
               /\ OsaLog[1].target = None
               /\ log[Len(log)] = OsaLog[1]

\* C13, for each remote command of --detach: the set of sessions on the host
\* stays what it was, and so does every session the command does not name.
C13_Step ==
    (pc \in {"detach", "detach_loop"} /\ log' # log)
        => /\ DOMAIN tmux' = DOMAIN tmux
           /\ \A n \in DOMAIN tmux :
                  n # log'[Len(log')].target => tmux'[n] = tmux[n]
           /\ \A n \in DOMAIN tmux : tmux'[n].auth = tmux[n].auth

\* C13: --detach issues one detach-client per session attached in the snapshot
\* and no other remote command, none of which adds or removes a session; it
\* then closes all prefixed windows by one call, also when nothing is attached,
\* and exits 0.
C13_DetachOnlyAttached == [](C13_AtExit) /\ [][C13_Step]_vars

\* One session was detached, the detached one beside it was not named.
C13_Witness ==
    /\ BatchListed("detach")
    /\ pc = "done"
    /\ SnapAttached = {PREFIX \o web}
    /\ SnapDetached = {PREFIX \o web2}
    /\ Len(log) = 3
    /\ log[2].rc = 0

\* The snapshot was empty and the windows were closed.
C13_WitnessEmpty ==
    /\ BatchListed("detach")
    /\ pc = "done"
    /\ Snap = {}
    /\ Len(log) = 2
    /\ log[1].rc = 0

\* C14, in every state of an invocation without arguments: the listing is the
\* only remote command; every osascript call opens a window, for a session the
\* snapshot shows detached, in ascending order of the names (so never twice for
\* one session); with no detached session it ends at once with exit code 0; and
\* when it ends with exit code 0 every detached session has had its call.
C14_InLog ==
    BatchListed("resume")
        => /\ Len(SshLog) = 1
           /\ SshLog[1].op = "list-sessions"
           /\ \A i \in DOMAIN OsaLog :
                  /\ OsaLog[i].op = "open"
                  /\ OsaLog[i].target \in SnapDetached
                  /\ i > 1 => StrLess(OsaLog[i - 1].target, OsaLog[i].target)
           /\ SnapDetached = {}
                => pc = "done" /\ exitCode = 0 /\ out = <<"no_detached">>
           /\ (pc = "done" /\ exitCode = 0)
                => /\ Len(OsaLog) = Cardinality(SnapDetached)
                   /\ \A i \in DOMAIN OsaLog : OsaLog[i].rc = 0

\* C14, for each call of osascript: when it succeeds one window is added, last,
\* titled with the session of the call and not yet attached, and the windows
\* already open stay; no step of main changes the host's sessions.
C14_Step ==
    (pc \in {"resume", "resume_loop"} /\ log' # log)
        => /\ tmux' = tmux
           /\ relay' = relay
           /\ IF log'[Len(log')].kind = "osascript" /\ log'[Len(log')].rc = 0
              THEN /\ Len(windows') = Len(windows) + 1
                   /\ SubSeq(windows', 1, Len(windows)) = windows
                   /\ windows'[Len(windows')].title = log'[Len(log')].target
                   /\ windows'[Len(windows')].state = "pending"
              ELSE windows' = windows

\* C14: without arguments, one snapshot is taken and one window is opened for
\* each session detached in it, in sorted order; nothing is opened and nothing
\* is issued for an attached session; with no detached session nothing is
\* opened and the exit code is 0.
C14_ResumeOpensDetached == [](C14_InLog) /\ [][C14_Step]_vars

\* The detached session got its window, the attached one did not.
C14_Witness ==
    /\ BatchListed("resume")
    /\ pc = "done"
    /\ exitCode = 0
    /\ SnapDetached = {PREFIX \o web2}
    /\ SnapAttached = {PREFIX \o web}
    /\ Len(OsaLog) = 1
    /\ windows # <<>>
    /\ windows[Len(windows)].title = PREFIX \o web2

\* Both sessions were detached and both got a window, resume-web first.
C14_WitnessTwo ==
    /\ BatchListed("resume")
    /\ pc = "done"
    /\ exitCode = 0
    /\ SnapDetached = {PREFIX \o web, PREFIX \o web2}
    /\ Len(OsaLog) = 2
    /\ OsaLog[1].target = PREFIX \o web

\* The sessions of the snapshot a batch branch acts on, and its calls for them.
BatchSessions ==
    IF Branch(argv) = "resume" THEN SnapDetached
    ELSE IF Branch(argv) = "detach" THEN SnapAttached
    ELSE Snap
SubCalls ==
    {i \in DOMAIN log : log[i].op \in {"open", "detach-client", "kill-session"}}

\* C15: when a batch branch (no argument, --detach, --clear) ends, every session
\* of its snapshot has had its call, also after a call for another session
\* failed, and a failed call is reported: the invocation does not end with the
\* message of success.
C15_BatchContinuesAndReports ==
    (/\ Started
     /\ Branch(argv) \in {"resume", "detach", "clear"}
     /\ log # <<>>
     /\ pc = "done")
        => /\ \A n \in BatchSessions : \E i \in SubCalls : log[i].target = n
           /\ (\E i \in SubCalls : log[i].rc # 0)
                => out \notin {<<"resumed">>, <<"detached">>, <<"killed">>}

\* C15, for the branch without arguments alone: every detached session of the
\* snapshot has had its call when the invocation ends.
C15_ResumeContinues ==
    (BatchListed("resume") /\ pc = "done")
        => \A n \in SnapDetached : \E i \in SubCalls : log[i].target = n

\* C15, for --detach and --clear alone: a failed call is reported.
C15_DetachClearReport ==
    (Started /\ Branch(argv) \in {"detach", "clear"} /\ log # <<>> /\ pc = "done")
        => ((\E i \in SubCalls : log[i].rc # 0)
                => out \notin {<<"detached">>, <<"killed">>})

\* The branches of main that work on sessions.
SessionBranches == {"list", "detach", "clear", "remove", "name", "resume"}

\* C16: an invocation of a session operation (--list, --detach, --clear,
\* --remove NAME, NAME, no argument) with a configuration that has no host, or
\* an empty one, has ended with exit code 1 without a single call of ssh or
\* osascript.
C16_NoHostStopsEarly ==
    (/\ Started
     /\ Branch(argv) \in SessionBranches
     /\ ("ssh_host" \notin DOMAIN config \/ config["ssh_host"] = ""))
        => /\ pc = "done"
           /\ exitCode = 1
           /\ out = <<"no_host">>
           /\ log = <<>>

\* --clear with an empty host in the configuration, sessions on the host and a
\* window open.
C16_Witness ==
    /\ Started
    /\ Branch(argv) = "clear"
    /\ "ssh_host" \in DOMAIN config
    /\ config["ssh_host"] = ""
    /\ pc = "done"
    /\ exitCode = 1
    /\ DOMAIN tmux # {}
    /\ windows # <<>>

\* C17: an invocation whose command line gives a NAME together with an option,
\* or more than one option, has ended with exit code 1 without writing the
\* configuration and without a single call of ssh or osascript.
C17_MisuseStopsEarly ==
    (/\ Started
     /\ \/ argv.name # None /\ Flags(argv) > 0
        \/ Flags(argv) > 1)
        => /\ pc = "done"
           /\ exitCode = 1
           /\ log = <<>>

\* The tool's sessions on the host, and its windows.
Prefixed == {n \in DOMAIN tmux : StartsWith(n, PREFIX)}
PrefixedWindows == {i \in DOMAIN windows : StartsWith(windows[i].title, PREFIX)}

\* C18: when --clear, with no failure of ssh or osascript and no other actor,
\* has made its last call, no session with the prefix is left on the host, the
\* directory /tmp/resume does not exist and no window with a prefixed title is
\* open.
C18_ClearLeavesNothing ==
    (/\ BatchListed("clear")
     /\ Given(argv) = 1
     /\ pc = "done"
     /\ faults = 0
     /\ log[Len(log)].op = "close")
        => /\ Prefixed = {}
           /\ ~relay.dir
           /\ relay.files = {}
           /\ PrefixedWindows = {}

\* The sessions on the host that do not carry the prefix.
Foreign(t) == {n \in DOMAIN t : ~StartsWith(n, PREFIX)}

\* C19, in every state: each remote command that names a session names one
\* with the prefix; the calls a batch branch makes for the sessions of its
\* snapshot, and the entries --list shows, are sessions the host listed with
\* the prefix.
C19_InLog ==
    Started
        => /\ \A i \in DOMAIN log :
                  log[i].op \in {"new-session -d", "set status-style", "kill-session",
                                 "detach-client", "open"}
                      => StartsWith(log[i].target, PREFIX)
           /\ (Branch(argv) \in {"resume", "detach", "clear"} /\ log # <<>>)
                => \A i \in SubCalls : log[i].target \in Snap
           /\ (Branch(argv) = "list" /\ pc = "done" /\ log # <<>>)
                => /\ Len(todo) = Cardinality(Snap)
                   /\ \A i \in DOMAIN todo : PREFIX \o todo[i][1] \in Snap

\* C19, for every step, of the invocation or of a window's command: the
\* sessions without the prefix are the same before and after, each with the
\* same clients and environment.
C19_Step ==
    /\ Foreign(tmux') = Foreign(tmux)
    /\ \A n \in Foreign(tmux) : tmux'[n] = tmux[n]

\* C19: the tool sees and affects only sessions that carry the prefix resume-.
C19_OnlyPrefixed == [](C19_InLog) /\ [][C19_Step]_vars

\* --clear has killed the tool's two sessions; the foreign session, with its
\* client, is still there.
C19_Witness ==
    /\ BatchListed("clear")
    /\ pc = "done"
    /\ Snap = {PREFIX \o web, PREFIX \o web2}
    /\ DOMAIN Table = TmuxNames
    /\ Table[other] = 1
    /\ DOMAIN tmux = {other}
    /\ tmux[other].clients = 1

\* C20: in every state, whatever invocations came before and whether or not the
\* windows they opened have attached, no two open windows carry the same
\* prefixed title.
C20_OneWindowPerSession ==
    \A i, j \in PrefixedWindows : i # j => windows[i].title # windows[j].title

(***************************************************************************)
(* The colour of line 118, computed for two creations of one session       *)
(***************************************************************************)

\* The Python processes that run main: each has its own salt for str hashes,
\* so each has its own value of hash(name).
Processes == {1, 2}

\* Two creations of the session arg.name, by the processes arg.procs, with
\* arg.hash[p] what hash(arg.name) returns in process p.
InitColor ==
    /\ arg \in [name : {web, web2}, procs : Processes \X Processes,
                 hash : [Processes -> PyHashValues]]
    /\ ret = NotCalled
    /\ Quiet

\* Line 118 in each of the two creations: the index and the palette entry.
Colorize ==
    /\ ~ret.done
    /\ ret' = [done |-> TRUE,
               val |-> [i \in 1 .. 2 |->
                          [index |-> ColorIndex(arg.hash[arg.procs[i]]),
                           color |-> Color(arg.hash[arg.procs[i]])]]]
    /\ UNCHANGED <<arg, peer, world, locals>>

SpecColor == InitColor /\ [][Colorize]_vars

\* C21: two creations of a session of one name, in one invocation of the
\* program or in two, select the same palette entry, at an index from 0 to 19.
C21_ColorFromNameAlone ==
    ret.done
        => /\ ret.val[1].color = ret.val[2].color
           /\ \A i \in 1 .. 2 : ret.val[i].index \in 0 .. Len(SESSION_COLORS) - 1

\* C21, the parts that hold: the index is within the palette, and two
\* creations in one process select the same entry.
C21_WithinOneProcess ==
    ret.done
        => /\ \A i \in 1 .. 2 : ret.val[i].index \in 0 .. Len(SESSION_COLORS) - 1
           /\ arg.procs[1] = arg.procs[2] => ret.val[1].color = ret.val[2].color

(***************************************************************************)
(* Properties of the closing of windows and of the two scans               *)
(***************************************************************************)

\* The branch has made its call of close_terminal_windows.
CloseCalled ==
    /\ Started
    /\ Branch(argv) \in {"remove", "detach", "clear"}
    /\ log # <<>>
    /\ log[Len(log)].op = "close"

\* C22: once --remove NAME, --detach or --clear has called
\* close_terminal_windows, the invocation has ended with exit code 0, whether
\* or not a window matched and whether or not osascript failed, and its remote
\* commands were all issued before: the successful kill for --remove, one
\* detach-client per attached session for --detach, one kill-session per
\* session and the rm -rf for --clear.
C22_CloseIsBestEffort ==
    CloseCalled
        => /\ pc = "done"
           /\ exitCode = 0
           /\ Branch(argv) = "remove"
                => /\ Len(log) = 2
                   /\ log[1].op = "kill-session"
                   /\ log[1].target = Full
                   /\ log[1].rc = 0
           /\ Branch(argv) = "detach"
                => OnePerSession(SshLog, 2, Cardinality(SnapAttached) + 1,
                                 "detach-client", SnapAttached)
           /\ Branch(argv) = "clear"
                => /\ OnePerSession(SshLog, 2, Cardinality(Snap) + 1,
                                    "kill-session", Snap)
                   /\ Snap # {} => SshLog[Len(SshLog)].op = "rm -rf"

\* resume-web was on the host with no window open at all, its kill succeeded
\* and the osascript call that closes windows failed.
C22_Witness ==
    /\ CloseCalled
    /\ Branch(argv) = "remove"
    /\ argv.remove = web
    /\ windows = <<>>
    /\ log[1].rc = 0
    /\ log[Len(log)].rc # 0
    /\ exitCode = 0

\* The names ssh_create_session is asked about.
ScanNames == {web, api, <<"a">>}

\* list_remote_sessions and the scan of ssh_create_session, lines 107-113, on
\* one and the same stdout.
Scan ==
    /\ ~ret.done
    /\ ret' = [done |-> TRUE,
               val |-> [list |-> list_remote_sessions(Text(arg)),
                        scan |-> [n \in ScanNames |->
                                     ExistingSession(Text(arg), PREFIX \o n)]]]
    /\ UNCHANGED <<arg, peer, world, locals>>

SpecScan == InitListing /\ [][Scan]_vars

\* The entries of the listing result that carry the name n.
EntriesOf(n) == {i \in DOMAIN ret.val.list : ret.val.list[i][1] = n}

\* C23: on every stdout and for every valid name n, ssh_create_session finds
\* the session (existed) exactly when the result of list_remote_sessions has
\* an entry named n, and then returns the attached value of such an entry.
C23_ScansAgree ==
    ret.done
        => \A n \in ScanNames :
               /\ ret.val.scan[n][1] <=> EntriesOf(n) # {}
               /\ EntriesOf(n) # {}
                    => \E i \in EntriesOf(n) : ret.val.list[i][2] = ret.val.scan[n][2]

\* The lines tmux writes for its format: the name without a colon, a colon,
\* the count in digits, and no white space around.
TmuxLine(l) ==
    /\ l.lead = <<>>
    /\ l.trail = <<>>
    /\ l.colon
    /\ l.count # <<>>
    /\ \A i \in DOMAIN l.base : l.base[i] # ":"

\* C23, on the outputs tmux itself can write: there the two scans agree.
C23_AgreeOnTmuxLines ==
    (ret.done /\ \A i \in DOMAIN arg : TmuxLine(arg[i]))
        => \A n \in ScanNames :
               /\ ret.val.scan[n][1] <=> EntriesOf(n) # {}
               /\ EntriesOf(n) # {}
                    => \E i \in EntriesOf(n) : ret.val.list[i][2] = ret.val.scan[n][2]

\* What the first invocation has done for its session.
MainCreated ==
    \E i \in DOMAIN log :
        log[i].op = "new-session -d" /\ log[i].target = Full /\ log[i].rc = 0
MainOpened ==
    \E i \in DOMAIN log : log[i].op = "open" /\ log[i].target = Full /\ log[i].rc = 0

\* C24: a failing new-session ends ./resume NAME at once, with a nonzero exit
\* code and neither the style command nor a window; and of two invocations of
\* ./resume NAME that run at the same time for a name that was absent, at most
\* one creates the session and at most one opens a window for it.
C24_OneCreatesOneOpens ==
    (Started /\ Branch(argv) = "name")
        => /\ \A i \in DOMAIN log :
                  (log[i].op = "new-session -d" /\ log[i].rc # 0)
                      => /\ i = Len(log)
                         /\ pc = "done"
                         /\ exitCode # 0
           /\ (peer.pc = "done" /\ peer.code = 1) => ~peer.created /\ ~peer.opened
           /\ B2N(MainCreated) + B2N(peer.created) <= 1
           /\ B2N(MainOpened) + B2N(peer.opened) <= 1

\* C24, the parts that hold: a failing new-session ends the invocation without
\* style and without window, and at most one of the two creates the session.
C24_AtMostOneCreates ==
    (Started /\ Branch(argv) = "name")
        => /\ \A i \in DOMAIN log :
                  (log[i].op = "new-session -d" /\ log[i].rc # 0)
                      => /\ i = Len(log)
                         /\ pc = "done"
                         /\ exitCode # 0
           /\ (peer.pc = "done" /\ peer.code = 1) => ~peer.created /\ ~peer.opened
           /\ B2N(MainCreated) + B2N(peer.created) <= 1

====
